---- MODULE Spec2Model ----
(***************************************************************************)
(* Model of impeller's GaussianBlurFilterContents                          *)
(* (impeller/entity/contents/filters/gaussian_blur_filter_contents.cc).    *)
(*                                                                         *)
(* Scalars (C++ float) are fixed-point integers in units of 1/Q; every     *)
(* float product or quotient is rounded to the nearest unit, as the FPU    *)
(* rounds to the nearest float.  ISize components, blur radii in pixels    *)
(* and sample counts are plain integers, as in the code.                   *)
(***************************************************************************)
EXTENDS Integers, Sequences, FiniteSets, TLC

\* One Scalar unit is 1/Q.
Q == 10 * 1000

\* ------------------------------------------------------------------------
\* Float arithmetic on fixed-point values
\* ------------------------------------------------------------------------

Abs(a) == IF a < 0 THEN -a ELSE a

Min(a, b) == IF a < b THEN a ELSE b

Max(a, b) == IF a < b THEN b ELSE a

\* <<quotient, remainder>> of a * b divided by c, for a, b >= 0 and
\* 0 < c < 2^27, computed three bits of b at a time so that no intermediate
\* value is wider than the machine word.
RECURSIVE MulDivQR(_, _, _)
MulDivQR(a, b, c) ==
    IF b = 0 THEN <<0, 0>>
    ELSE IF a < 46340 /\ b < 46340 THEN <<(a * b) \div c, (a * b) % c>>
    ELSE LET h  == MulDivQR(a, b \div 8, c)
             lo == b % 8
             r2 == 8 * h[2] + lo * (a % c)
         IN  <<8 * h[1] + lo * (a \div c) + (r2 \div c), r2 % c>>

\* a * b / c rounded to the nearest integer (halves away from zero), signed.
MulDiv(a, b, c) ==
    LET qr  == MulDivQR(Abs(a), Abs(b), c)
        mag == qr[1] + (IF 2 * qr[2] >= c THEN 1 ELSE 0)
    IN  IF (a < 0) = (b < 0) THEN mag ELSE -mag

\* Scalar * Scalar.
FMul(a, b) == MulDiv(a, b, Q)

\* Scalar / Scalar (b # 0).
FDiv(a, b) == IF b < 0 THEN MulDiv(-a, Q, -b) ELSE MulDiv(a, Q, b)

\* std::ceil and std::round of a Scalar, as integers.
Ceil(a) == IF a >= 0 THEN (a + Q - 1) \div Q ELSE -((-a) \div Q)

Round(a) == IF a >= 0 THEN (2 * a + Q) \div (2 * Q) ELSE -((2 * (-a) + Q) \div (2 * Q))

\* Largest r with r * r <= n (n >= 0), by bisection on [lo, hi].
RECURSIVE SqrtBisect(_, _, _)
SqrtBisect(n, lo, hi) ==
    IF lo >= hi THEN lo
    ELSE LET mid == (lo + hi + 1) \div 2
         IN  IF mid * mid <= n THEN SqrtBisect(n, mid, hi)
             ELSE SqrtBisect(n, lo, mid - 1)

\* Vector2::GetLength of (x, y): sqrt(x*x + y*y), nearest unit.
GetLength(x, y) ==
    LET n == x * x + y * y
        r == SqrtBisect(n, 0, 46340)
    IN  IF n - r * r > r THEN r + 1 ELSE r

\* log2f(v) for v > 0: the integer part by normalising v into [1, 2), then
\* Log2Bits fractional bits by repeated squaring of the mantissa (in units of
\* 1 / Log2Base).
Log2Base == 16384

Log2Bits == 10

RECURSIVE Pow2Int(_)
Pow2Int(n) == IF n <= 0 THEN 1 ELSE 2 * Pow2Int(n - 1)

RECURSIVE Log2Exponent(_, _)
Log2Exponent(v, e) ==
    IF v >= 2 * Q * Pow2Int(e) THEN Log2Exponent(v, e + 1)
    ELSE IF v * Pow2Int(-e) < Q THEN Log2Exponent(v, e - 1)
    ELSE e

RECURSIVE Log2Frac(_, _)
Log2Frac(m, n) ==
    IF n = 0 THEN 0
    ELSE LET s == (m * m) \div Log2Base
         IN  IF s >= 2 * Log2Base
             THEN Pow2Int(n - 1) + Log2Frac(s \div 2, n - 1)
             ELSE Log2Frac(s, n - 1)

Log2f(v) ==
    LET e == Log2Exponent(v, 0)
        m == IF e >= 0 THEN MulDiv(v, Log2Base, Q * Pow2Int(e))
             ELSE MulDiv(v * Pow2Int(-e), Log2Base, Q)
        f == Log2Frac(Min(m, 2 * Log2Base - 1), Log2Bits)
    IN  e * Q + MulDiv(f, Q, Pow2Int(Log2Bits))

\* powf(2.0f, exponent) for an integral exponent.
Powf2(exponent) ==
    IF exponent >= 0 THEN Q * Pow2Int(exponent) ELSE Q \div Pow2Int(-exponent)

\* ------------------------------------------------------------------------
\* Vectors and matrices.  A Vector2 is <<x, y>>; a matrix basis is the pair
\* of its columns <<<<m0, m1>>, <<m4, m5>>>> (the images of (1,0) and (0,1)).
\* ------------------------------------------------------------------------

MakeScale(s) == <<<<s[1], 0>>, <<0, s[2]>>>>

MatVec(m, v) ==
    <<FMul(v[1], m[1][1]) + FMul(v[2], m[2][1]),
      FMul(v[1], m[1][2]) + FMul(v[2], m[2][2])>>

MatMul(a, b) == <<MatVec(a, b[1]), MatVec(a, b[2])>>

VecAbs(v) == <<Abs(v[1]), Abs(v[2])>>

\* 1.f / Vector2
VecInv(v) == <<FDiv(Q, v[1]), FDiv(Q, v[2])>>

\* ------------------------------------------------------------------------
\* Parameter derivation
\* ------------------------------------------------------------------------

\* constexpr Scalar kMaxSigma = 500.0f
kMaxSigma == 500 * Q

\* impeller/geometry/constants.h: kEhCloseEnough = 1e-3f
kEhCloseEnough == Q \div 1000

\* impeller/geometry/sigma.h: kKernelRadiusPerSigma = 1.73205080757, as the
\* ratio KernelRadiusNum / KernelRadiusDen.
KernelRadiusNum == 173205081

KernelRadiusDen == 100000000

\* Variant of Clamp that applies the lower limit only.
Clamp_LowerOnly(vec2, min, max) ==
    <<Max(min, vec2[1]), Max(min, vec2[2])>>

Clamp(vec2, min, max) ==
    <<Max(min, Min(vec2[1], max)), Max(min, Min(vec2[2], max))>>

ExtractScale(matrix) ==
    <<GetLength(matrix[1][1], matrix[1][2]), GetLength(matrix[2][1], matrix[2][2])>>

\* static_cast<Radius>(Sigma(sigma)).radius:
\*   sigma > 0.5f ? (sigma - 0.5f) * kKernelRadiusPerSigma : 0.0f
CalculateBlurRadius(sigma) ==
    IF 2 * sigma > Q
    THEN MulDiv(sigma - (Q \div 2), KernelRadiusNum, KernelRadiusDen)
    ELSE 0

ScaleBlurRadius(radius, scalar) == Round(FMul(radius, scalar))

\* The polynomial c + b * clamped + a * clamped * clamped is kept in units
\* of 1 / ScalarUnit (a float's seven significant digits), so that the
\* product with clamped is rounded once.
ScalarUnit == 1000 * Q

\* clamped * (c + b * clamped + a * clamped * clamped) with a = 3.4e-06,
\* b = -3.4e-3, c = 1.  In units of 1 / ScalarUnit, b * clamped is
\* -34 * clamped / 10 and a * clamped * clamped is 34 * clamped^2 / 10^8.
ScaleSigma(sigma) ==
    LET clamped == Min(sigma, kMaxSigma)
        bterm   == MulDiv(-34, clamped, 10)
        aterm   == MulDiv(clamped, 34 * clamped, 10000 * Q)
        scalar  == ScalarUnit + bterm + aterm
    IN  MulDiv(clamped, scalar, ScalarUnit)

\* static constexpr int32_t kEighthDownsampleKernalWidthMax = 41
kEighthDownsampleKernalWidthMax == 41

\* Variant of CalculateScale whose exponent is not limited to -4.
CalculateScale_NoFloor(sigma) ==
    IF sigma <= 4 * Q THEN Q
    ELSE LET raw_result   == FDiv(4 * Q, sigma)
             exponent     == Round(Log2f(raw_result))
             rounded      == Powf2(exponent)
             rounded_plus == Powf2(exponent + 1)
             blur_radius  == CalculateBlurRadius(sigma)
             kernel_size_plus ==
                 (ScaleBlurRadius(blur_radius, rounded_plus) * 2) + 1
         IN  IF rounded < Q \div 8
             THEN (IF kernel_size_plus <= kEighthDownsampleKernalWidthMax
                   THEN rounded_plus ELSE rounded)
             ELSE rounded

CalculateScale(sigma) ==
    IF sigma <= 4 * Q THEN Q
    ELSE LET raw_result   == FDiv(4 * Q, sigma)
             exponent     == Max(-4, Round(Log2f(raw_result)))
             rounded      == Powf2(exponent)
             rounded_plus == Powf2(exponent + 1)
             blur_radius  == CalculateBlurRadius(sigma)
             kernel_size_plus ==
                 (ScaleBlurRadius(blur_radius, rounded_plus) * 2) + 1
         IN  IF rounded < Q \div 8
             THEN (IF kernel_size_plus <= kEighthDownsampleKernalWidthMax
                   THEN rounded_plus ELSE rounded)
             ELSE rounded

\* BlurInfo of CalculateBlurInfo(entity, effect_transform, sigma); the two
\* transforms are given by their bases.
CalculateBlurInfo(entity_transform, effect_transform, sigma) ==
    LET source_space_scalar == ExtractScale(entity_transform)
        scaled_sigma ==
            Clamp(VecAbs(MatVec(MatMul(effect_transform,
                                       MakeScale(source_space_scalar)),
                                <<ScaleSigma(sigma[1]), ScaleSigma(sigma[2])>>)),
                  0, kMaxSigma)
        blur_radius == <<CalculateBlurRadius(scaled_sigma[1]),
                         CalculateBlurRadius(scaled_sigma[2])>>
        padding == <<Ceil(blur_radius[1]) * Q, Ceil(blur_radius[2]) * Q>>
        local_padding == VecAbs(MatVec(MakeScale(source_space_scalar), padding))
    IN  [source_space_scalar |-> source_space_scalar,
         scaled_sigma  |-> scaled_sigma,
         blur_radius   |-> blur_radius,
         padding       |-> padding,
         local_padding |-> local_padding]

\* ------------------------------------------------------------------------
\* Kernel generation
\* ------------------------------------------------------------------------

\* gaussian_blur_filter_contents.h: kGaussianBlurMaxKernelSize (the capacity
\* of the fragment shader's sample array) and KernelSamples::kMaxKernelSize
\* (twice that).
kGaussianBlurMaxKernelSize == 50

kMaxKernelSize == kGaussianBlurMaxKernelSize * 2

\* C++ integer division truncates toward zero.
CDiv(a, b) == IF (a < 0) = (b < 0) THEN Abs(a) \div Abs(b) ELSE -(Abs(a) \div Abs(b))

\* A normalised coefficient is an integer in units of 1 / CoefUnit, or one of
\* two marks: NaN (the float NaN, from 0/0) and Indeterminate (the content of
\* an array element that was never written).
CoefUnit == 1024 * 1024

NaN == 0 - 1

Indeterminate == 0 - 2

IsNumber(c) == c >= 0

\* A weight before normalisation is kept like a float, as <<m, k>> standing
\* for (m / MantissaUnit) * 2^-k, because the weights of one kernel span many
\* binary orders of magnitude; <<0, 0>> is the float 0.
MantissaUnit == 32768

\* 2^(-2^b / 1024) in units of 1 / MantissaUnit, for b = 0 .. 9.
Exp2Table == <<32746, 32724, 32679, 32591, 32415, 32066, 31379, 30048, 27554, 23170>>

\* 2^(-f / 1024) for 0 <= f < 1024, as the product of the table entries of
\* the bits of f.
RECURSIVE Exp2Frac(_, _)
Exp2Frac(f, b) ==
    IF b > 10 THEN MantissaUnit
    ELSE LET rest == Exp2Frac(f \div 2, b + 1)
         IN  IF f % 2 = 1 THEN (rest * Exp2Table[b] + MantissaUnit \div 2) \div MantissaUnit
             ELSE rest

\* The float 0.5f * (x * x) / (sigma * sigma), in Scalar units, for sigma > 0;
\* values of ExpfCap and above are all reported as ExpfCap * Q.
ExpfCap == 200

HalfSquareRatio(x, sigma) ==
    LET d == x * x
    IN  IF (d * Q) \div sigma > 2 * ExpfCap * 500 THEN ExpfCap * Q
        ELSE LET r1 == MulDiv(d * Q, Q, sigma)
             IN  IF r1 \div (2 * sigma) >= ExpfCap THEN ExpfCap * Q
                 ELSE MulDiv(r1, Q, 2 * sigma)

\* expf(-t) / (sqrtf(2 * pi) * sigma) as a float <<m, k>>.  log2(e) is
\* 147732 / 102400 * 1024 binary-exponent units per unit of t; the divisor
\* sqrtf(2 * pi) * sigma (2.5066 * sigma) is common to every sample of a
\* kernel, so only its binary exponent is kept.  A float32 below 2^-150 is 0.
FloatMinExponent == 150

GaussianWeight(x, sigma) ==
    LET t     == HalfSquareRatio(x, sigma)
        u     == MulDiv(t, 147732, 100 * Q)
        shift == MulDiv(Log2f(FMul(25066, sigma)), 1024, Q)
    IN  IF u > FloatMinExponent * 1024 \/ u + shift > FloatMinExponent * 1024
        THEN <<0, 0>>
        ELSE <<Exp2Frac(u % 1024, 1), u \div 1024>>

\* The least exponent k among the non-zero weights w[lo] .. w[hi].
RECURSIVE MinExponent(_, _, _)
MinExponent(w, lo, hi) ==
    IF lo > hi THEN FloatMinExponent + 1
    ELSE IF lo = hi THEN (IF w[lo][1] # 0 THEN w[lo][2] ELSE FloatMinExponent + 1)
    ELSE LET mid == (lo + hi) \div 2
         IN  Min(MinExponent(w, lo, mid), MinExponent(w, mid + 1, hi))

\* The weight <<m, k>> in units of 2^-kmin / CoefUnit.
Aligned(wt, kmin) ==
    IF wt[1] = 0 \/ wt[2] - kmin > 20 THEN 0
    ELSE (wt[1] * (CoefUnit \div MantissaUnit)) \div Pow2Int(wt[2] - kmin)

\* f[lo] + ... + f[hi]
RECURSIVE SumRange(_, _, _)
SumRange(f, lo, hi) ==
    IF lo > hi THEN 0
    ELSE IF lo = hi THEN f[lo]
    ELSE LET mid == (lo + hi) \div 2
         IN  SumRange(f, lo, mid) + SumRange(f, mid + 1, hi)

\* KernelSamples: sample_count, and samples[i] for the indices i that the
\* loop has written (0 .. sample_count - 1); the other elements of the C
\* array are never written.
\* Variant of GenerateBlurInfo without the clamp to kMaxKernelSize.
GenerateBlurInfo_NoClamp(parameters) ==
    LET full_count == CDiv(2 * parameters.blur_radius, parameters.step_size) + 1
        chop       == parameters.blur_radius >= 3
        x_offset   == IF chop THEN 1 ELSE 0
        chopped    == IF chop THEN full_count - 2 ELSE full_count
        sample_count == chopped
        n     == Max(sample_count, 0)
        X     == [i \in 0 .. n - 1 |->
                    x_offset + (i * parameters.step_size) - parameters.blur_radius]
        w     == [i \in 0 .. n - 1 |-> GaussianWeight(X[i], parameters.blur_sigma)]
        kmin  == MinExponent(w, 0, n - 1)
        a     == [i \in 0 .. n - 1 |-> Aligned(w[i], kmin)]
        tally == SumRange(a, 0, n - 1)
    IN  [sample_count |-> sample_count,
         samples |-> [i \in 0 .. n - 1 |->
            [uv_offset   |-> <<parameters.blur_uv_offset[1] * X[i],
                               parameters.blur_uv_offset[2] * X[i]>>,
             coefficient |-> IF tally = 0 THEN NaN
                             ELSE MulDiv(a[i], CoefUnit, tally)]]]

GenerateBlurInfo(parameters) ==
    LET full_count == CDiv(2 * parameters.blur_radius, parameters.step_size) + 1
        chop       == parameters.blur_radius >= 3
        x_offset   == IF chop THEN 1 ELSE 0
        chopped    == IF chop THEN full_count - 2 ELSE full_count
        sample_count == IF chopped > kMaxKernelSize THEN kMaxKernelSize ELSE chopped
        n     == Max(sample_count, 0)
        X     == [i \in 0 .. n - 1 |->
                    x_offset + (i * parameters.step_size) - parameters.blur_radius]
        w     == [i \in 0 .. n - 1 |-> GaussianWeight(X[i], parameters.blur_sigma)]
        kmin  == MinExponent(w, 0, n - 1)
        a     == [i \in 0 .. n - 1 |-> Aligned(w[i], kmin)]
        tally == SumRange(a, 0, n - 1)
    IN  [sample_count |-> sample_count,
         samples |-> [i \in 0 .. n - 1 |->
            [uv_offset   |-> <<parameters.blur_uv_offset[1] * X[i],
                               parameters.blur_uv_offset[2] * X[i]>>,
             coefficient |-> IF tally = 0 THEN NaN
                             ELSE MulDiv(a[i], CoefUnit, tally)]]]

\* parameters.samples[j]
ReadSample(parameters, j) ==
    IF j \in DOMAIN parameters.samples THEN parameters.samples[j]
    ELSE [uv_offset |-> <<Indeterminate, Indeterminate>>, coefficient |-> Indeterminate]

\* left.coefficient + right.coefficient
CoefAdd(l, r) ==
    IF l = Indeterminate \/ r = Indeterminate THEN Indeterminate
    ELSE IF l = NaN \/ r = NaN THEN NaN
    ELSE l + r

\* (lo * lc + ro * rc) / (lc + rc) for one component of uv_offset: the exact
\* sum of the two products, divided once and rounded.
LerpOffset(lo, lc, ro, rc) ==
    IF Indeterminate \in {lo, lc, ro, rc} THEN Indeterminate
    ELSE IF NaN \in {lc, rc} \/ lc + rc = 0 THEN NaN
    ELSE LET s   == lc + rc
             ql  == MulDivQR(Abs(lo), lc, s)
             qr  == MulDivQR(Abs(ro), rc, s)
             sl  == IF lo < 0 THEN -1 ELSE 1
             sr  == IF ro < 0 THEN -1 ELSE 1
             num == sl * ql[2] + sr * qr[2]
         IN  sl * ql[1] + sr * qr[1]
             + (IF num >= 0 THEN (2 * num + s) \div (2 * s)
                ELSE -((2 * (-num) + s) \div (2 * s)))

\* The loop of LerpHackKernelSamples from index i on, j being the next input
\* index; acc is result.samples so far.
RECURSIVE LerpLoop(_, _, _, _, _, _)
LerpLoop(parameters, sample_count, middle, i, j, acc) ==
    IF i >= sample_count THEN acc
    ELSE IF i = middle
    THEN LerpLoop(parameters, sample_count, middle, i + 1, j + 1,
                  acc @@ (i :> ReadSample(parameters, j)))
    ELSE LET left  == ReadSample(parameters, j)
             right == ReadSample(parameters, j + 1)
             merged ==
               [uv_offset |->
                  <<LerpOffset(left.uv_offset[1], left.coefficient,
                               right.uv_offset[1], right.coefficient),
                    LerpOffset(left.uv_offset[2], left.coefficient,
                               right.uv_offset[2], right.coefficient)>>,
                coefficient |-> CoefAdd(left.coefficient, right.coefficient)]
         IN  LerpLoop(parameters, sample_count, middle, i + 1, j + 2,
                      acc @@ (i :> merged))

\* Variant of LerpHackKernelSamples that leaves out the "+ 1" of the count.
LerpHackKernelSamples_NoMiddle(parameters) ==
    LET sample_count == CDiv(parameters.sample_count - 1, 2)
        middle       == CDiv(sample_count, 2)
    IN  [sample_count |-> sample_count,
         samples |-> LerpLoop(parameters, sample_count, middle, 0, 0, <<>>)]

LerpHackKernelSamples(parameters) ==
    LET sample_count == CDiv(parameters.sample_count - 1, 2) + 1
        middle       == CDiv(sample_count, 2)
    IN  [sample_count |-> sample_count,
         samples |-> LerpLoop(parameters, sample_count, middle, 0, 0, <<>>)]

\* ------------------------------------------------------------------------
\* State
\* ------------------------------------------------------------------------

VARIABLES
    filter,    \* the GaussianBlurFilterContents object: sigma_, tile_mode_,
               \* mask_blur_style_, mask_geometry_ (TRUE when non-null)
    pc,        \* position of the RenderFilter invocation
    args,      \* arguments of the invocation: inputs, entity, effect_transform
    local,     \* locals of RenderFilter
    env,       \* what each collaborator call of the invocation returned
    gpu,       \* effects on the device: command buffers, render targets,
               \* recorded subpasses, submissions
    result,    \* the std::optional<Entity> returned by RenderFilter
    rendered,  \* the draws of the latest Render of the returned entity
    pret,      \* latest call of a parameter-derivation function, with its result
    kpc,       \* position of the kernel computation
    kparams,   \* BlurParameters given to GenerateBlurInfo
    kernel,    \* KernelSamples returned by GenerateBlurInfo
    lerp       \* KernelSamples returned by LerpHackKernelSamples

vars == <<filter, pc, args, local, env, gpu, result, rendered,
          pret, kpc, kparams, kernel, lerp>>

renderVars == <<pc, args, local, env, gpu, result, rendered>>

kernelVars == <<kpc, kparams, kernel, lerp>>

\* ------------------------------------------------------------------------
\* Inputs
\* ------------------------------------------------------------------------

Identity == <<<<Q, 0>>, <<0, Q>>>>

\* Requested sigmas: 0, 0.0005, 10 and 600.
RequestedSigmas == {0, Q \div 2000, 10 * Q, 600 * Q}

TileModes == {"kClamp", "kRepeat", "kMirror", "kDecal"}

\* A sampler descriptor is its <<width_address_mode, height_address_mode>>.
SamplerAddressModes == {"kClampToEdge", "kRepeat", "kMirror", "kDecal"}

DefaultSamplerDescriptor == <<"kClampToEdge", "kClampToEdge">>

BlurStyles == {"kNormal", "kInner", "kOuter", "kSolid"}

\* Entity transforms: identity, a scale by (3, 1/2), a rotation (3-4-5).
EntityTransforms ==
    {Identity,
     <<<<3 * Q, 0>>, <<0, Q \div 2>>>>,
     <<<<(3 * Q) \div 5, (4 * Q) \div 5>>, <<-((4 * Q) \div 5), (3 * Q) \div 5>>>>}

\* Effect transforms: identity, a quarter turn scaled by 3.
EffectTransforms == {Identity, <<<<0, 3 * Q>>, <<-(3 * Q), 0>>>>}

\* Snapshots that inputs[0] can yield: texture size (pixels), the scale
\* of the translation-scale transform, and the sampler descriptor (the
\* default one, and one that repeats in width and mirrors in height).
Snapshots ==
    [size : {<<1, 1>>, <<100, 60>>}, transform : {<<Q, Q>>, <<Q \div 2, 2 * Q>>},
     sampler_descriptor : {DefaultSamplerDescriptor}]
        \cup {[size |-> <<100, 60>>, transform |-> <<Q, Q>>,
               sampler_descriptor |-> <<"kRepeat", "kMirror">>]}

NoSnapshot ==
    [size |-> <<0, 0>>, transform |-> <<0, 0>>,
     sampler_descriptor |-> DefaultSamplerDescriptor]

NoTarget == [id |-> 0, size |-> <<0, 0>>]

NoBlurInfo == CalculateBlurInfo(Identity, Identity, <<0, 0>>)

NoPassArgs == [subpass_size |-> <<0, 0>>, effective_scalar |-> <<0, 0>>]

NoEntity == [contents |-> "none", texture |-> 0, transform |-> Identity]

InitLocal ==
    [blur_info |-> NoBlurInfo, input_snapshot |-> NoSnapshot,
     downsample_pass_args |-> NoPassArgs,
     pass1_out |-> NoTarget, pass2_out |-> NoTarget, pass3_out |-> NoTarget]

\* decal_support is what SupportsDecalSamplerAddressMode() answered:
\* "unqueried", "supported" or "unsupported".
InitEnv ==
    [snapshot |-> "none", command_buffer |-> "none", downsample |-> "none",
     blur1 |-> "none", blur2 |-> "none", submit |-> "none",
     decal_support |-> "unqueried"]

InitGpu == [command_buffers |-> 0, targets |-> <<>>, passes |-> <<>>, submits |-> 0]

InitArgs == [inputs_empty |-> TRUE, entity |-> Identity, effect_transform |-> Identity]

\* ------------------------------------------------------------------------
\* RenderFilter
\* ------------------------------------------------------------------------

\* return std::nullopt
ReturnNullopt ==
    /\ result' = [has_value |-> FALSE, entity |-> NoEntity]
    /\ pc' = "done"

\* Entity::FromSnapshot with SetTransform: the basis of
\* entity.GetTransform() * MakeScale(1.f / source_space_scalar) * snapshot transform.
SnapshotEntityTransform(entity_transform, source_space_scalar, snapshot) ==
    MatMul(MatMul(entity_transform, MakeScale(VecInv(source_space_scalar))),
           MakeScale(snapshot.transform))

CalculateDownsamplePassArgs(scaled_sigma, padding, input_snapshot_size) ==
    LET desired_scalar == Min(CalculateScale(scaled_sigma[1]),
                              CalculateScale(scaled_sigma[2]))
        padded == <<input_snapshot_size[1] * Q + 2 * padding[1],
                    input_snapshot_size[2] * Q + 2 * padding[2]>>
        downsampled_size == <<FMul(padded[1], desired_scalar),
                              FMul(padded[2], desired_scalar)>>
        subpass_size == <<Round(downsampled_size[1]), Round(downsampled_size[2])>>
    IN  [subpass_size |-> subpass_size,
         effective_scalar |-> <<FDiv(subpass_size[1] * Q, padded[1]),
                                FDiv(subpass_size[2] * Q, padded[2])>>]

IsEmptySize(size) == size[1] <= 0 \/ size[2] <= 0

NoBlurParameters ==
    [blur_uv_offset |-> <<0, 0>>, blur_sigma |-> 0, blur_radius |-> 0, step_size |-> 0]

\* What ContentContext::MakeSubpass can do: allocate the target, record the
\* pass and succeed ("ok"); yield no render target texture ("no_target"); or
\* allocate the target and fail while creating, drawing or encoding the pass
\* ("pass_failed").
SubpassOutcomes == {"ok", "no_target", "pass_failed"}

\* renderer.MakeSubpass(label, size, command_buffer, callback): a new render
\* target of the requested size.  pass is the subpass the callback records.
MakeSubpassSized(g, pass, size, outcome) ==
    IF outcome = "no_target" \/ IsEmptySize(size)
    THEN [gpu |-> g, ok |-> FALSE, target |-> NoTarget]
    ELSE LET id == Len(g.targets) + 1
         IN  [gpu |-> [g EXCEPT !.targets = Append(@, size),
                                !.passes = Append(@, [pass EXCEPT !.dest = id,
                                                                  !.size = size,
                                                                  !.ok = (outcome = "ok")])],
              ok |-> outcome = "ok",
              target |-> IF outcome = "ok" THEN [id |-> id, size |-> size] ELSE NoTarget]

\* renderer.MakeSubpass(label, destination_target, command_buffer, callback)
MakeSubpassInto(g, pass, destination, outcome) ==
    IF outcome = "no_target"
    THEN [gpu |-> g, ok |-> FALSE, target |-> NoTarget]
    ELSE [gpu |-> [g EXCEPT !.passes = Append(@, [pass EXCEPT !.dest = destination.id,
                                                             !.size = destination.size,
                                                             !.ok = (outcome = "ok")])],
          ok |-> outcome = "ok",
          target |-> IF outcome = "ok" THEN destination ELSE NoTarget]

\* The descriptor after SetTileMode(&descriptor, renderer, tile_mode);
\* supports_decal is the renderer's
\* GetDeviceCapabilities().SupportsDecalSamplerAddressMode().
SetTileMode(descriptor, supports_decal, tile_mode) ==
    CASE tile_mode = "kDecal"  -> IF supports_decal THEN <<"kDecal", "kDecal">>
                                  ELSE descriptor
      [] tile_mode = "kClamp"  -> <<"kClampToEdge", "kClampToEdge">>
      [] tile_mode = "kMirror" -> <<"kMirror", "kMirror">>
      [] tile_mode = "kRepeat" -> <<"kRepeat", "kRepeat">>

\* input 0 is the input snapshot's texture; a render target's texture has
\* the target's id.  sampler is the address modes of the sampler the pass
\* binds.
MakeDownsampleSubpass(g, sampler_descriptor, pass_args, tile_mode, supports_decal, outcome) ==
    MakeSubpassSized(g,
        [kind |-> "downsample", input |-> 0, dest |-> 0, size |-> <<0, 0>>,
         ok |-> FALSE, blur |-> NoBlurParameters,
         sampler |-> SetTileMode(sampler_descriptor, supports_decal, tile_mode)],
        pass_args.subpass_size, outcome)

\* Variant of MakeBlurSubpass without the early return for a near-zero sigma.
MakeBlurSubpass_NoEarlyOut(g, input_pass, blur_info, destination_target, outcome) ==
    LET pass == [kind |-> "blur", input |-> input_pass.id, dest |-> 0,
                 size |-> <<0, 0>>, ok |-> FALSE, blur |-> blur_info]
    IN  IF destination_target # NoTarget
        THEN MakeSubpassInto(g, pass, destination_target, outcome)
        ELSE MakeSubpassSized(g, pass, input_pass.size, outcome)

\* Variant of MakeBlurSubpass that sizes a fresh target by the transposed
\* input size.
MakeBlurSubpass_TransposedSize(g, input_pass, blur_info, destination_target, outcome) ==
    IF blur_info.blur_sigma < kEhCloseEnough
    THEN [gpu |-> g, ok |-> TRUE, target |-> input_pass]
    ELSE LET pass == [kind |-> "blur", input |-> input_pass.id, dest |-> 0,
                      size |-> <<0, 0>>, ok |-> FALSE, blur |-> blur_info]
         IN  IF destination_target # NoTarget
             THEN MakeSubpassInto(g, pass, destination_target, outcome)
             ELSE MakeSubpassSized(g, pass, <<input_pass.size[2], input_pass.size[1]>>,
                                   outcome)

\* destination_target is NoTarget for std::nullopt.
MakeBlurSubpass(g, input_pass, blur_info, destination_target, outcome) ==
    IF blur_info.blur_sigma < kEhCloseEnough
    THEN [gpu |-> g, ok |-> TRUE, target |-> input_pass]
    ELSE LET pass == [kind |-> "blur", input |-> input_pass.id, dest |-> 0,
                      size |-> <<0, 0>>, ok |-> FALSE, blur |-> blur_info]
         IN  IF destination_target # NoTarget
             THEN MakeSubpassInto(g, pass, destination_target, outcome)
             ELSE MakeSubpassSized(g, pass, input_pass.size, outcome)

\* 1.0 / Vector2(pass1_out texture size)
PixelSize(size) == <<FDiv(Q, size[1] * Q), FDiv(Q, size[2] * Q)>>

\* Variant of the first blur pass's parameters that takes the X axis.
Pass2Parameters_XAxis(l) ==
    [blur_uv_offset |-> <<PixelSize(l.pass1_out.size)[1], 0>>,
     blur_sigma  |-> FMul(l.blur_info.scaled_sigma[1],
                          l.downsample_pass_args.effective_scalar[1]),
     blur_radius |-> ScaleBlurRadius(l.blur_info.blur_radius[1],
                                     l.downsample_pass_args.effective_scalar[1]),
     step_size   |-> 1]

\* BlurParameters of the first blur pass (the Y axis).
Pass2Parameters(l) ==
    [blur_uv_offset |-> <<0, PixelSize(l.pass1_out.size)[2]>>,
     blur_sigma  |-> FMul(l.blur_info.scaled_sigma[2],
                          l.downsample_pass_args.effective_scalar[2]),
     blur_radius |-> ScaleBlurRadius(l.blur_info.blur_radius[2],
                                     l.downsample_pass_args.effective_scalar[2]),
     step_size   |-> 1]

\* BlurParameters of the second blur pass (the X axis).
Pass3Parameters(l) ==
    [blur_uv_offset |-> <<PixelSize(l.pass1_out.size)[1], 0>>,
     blur_sigma  |-> FMul(l.blur_info.scaled_sigma[1],
                          l.downsample_pass_args.effective_scalar[1]),
     blur_radius |-> ScaleBlurRadius(l.blur_info.blur_radius[1],
                                     l.downsample_pass_args.effective_scalar[1]),
     step_size   |-> 1]

\* Variant of pass3_destination that always reuses the downsample target.
Pass3Destination_AlwaysReuse(l) == l.pass1_out

\* Variant of pass3_destination that never reuses the downsample target.
Pass3Destination_NeverReuse(l) == NoTarget

\* Only ping pong if the first pass actually created a render target.
Pass3Destination(l) ==
    IF l.pass2_out.id # l.pass1_out.id THEN l.pass1_out ELSE NoTarget

\* The entity ApplyBlurStyle returns for the blurred texture: the contents
\* name what its Render draws.
ApplyBlurStyle(blur_style, blur_entity) ==
    CASE blur_style = "kNormal" -> blur_entity
      [] blur_style = "kInner"  -> [blur_entity EXCEPT !.contents = "clip_intersect"]
      [] blur_style = "kOuter"  -> [blur_entity EXCEPT !.contents = "clip_difference"]
      [] blur_style = "kSolid"  -> [blur_entity EXCEPT !.contents = "solid"]

\* blur_output_entity: the basis of its snapshot transform (the translation
\* by -padding does not change the basis).
BlurOutputEntity(a, l) ==
    [contents |-> "blur",
     texture  |-> l.pass3_out.id,
     transform |->
        MatMul(SnapshotEntityTransform(a.entity, l.blur_info.source_space_scalar,
                                       l.input_snapshot),
               MakeScale(VecInv(l.downsample_pass_args.effective_scalar)))]

\* Variant of the pass-through test that compares with zero.
NoBlurToRender_ExactZero(scaled_sigma) ==
    scaled_sigma[1] = 0 /\ scaled_sigma[2] = 0

\* blur_info.scaled_sigma.x < kEhCloseEnough &&
\* blur_info.scaled_sigma.y < kEhCloseEnough
NoBlurToRender(scaled_sigma) ==
    scaled_sigma[1] < kEhCloseEnough /\ scaled_sigma[2] < kEhCloseEnough

RenderFilterArgs ==
    [inputs_empty : BOOLEAN, entity : EntityTransforms, effect_transform : EffectTransforms]

\* Entry: the inputs.empty() check and CalculateBlurInfo.
RenderFilterBegin ==
    /\ pc = "idle"
    /\ \E a \in RenderFilterArgs :
         /\ args' = a
         /\ IF a.inputs_empty
            THEN /\ ReturnNullopt
                 /\ UNCHANGED local
            ELSE /\ local' = [local EXCEPT !.blur_info =
                                CalculateBlurInfo(a.entity, a.effect_transform, filter.sigma)]
                 /\ pc' = "snapshot"
                 /\ UNCHANGED result
    /\ UNCHANGED <<filter, env, gpu, rendered, pret, kernelVars>>

\* GetSnapshot, and the pass-through return when both scaled sigmas are
\* below kEhCloseEnough.
RenderFilterSnapshot ==
    /\ pc = "snapshot"
    /\ \E snap \in Snapshots \cup {NoSnapshot} :
         IF snap = NoSnapshot
         THEN /\ env' = [env EXCEPT !.snapshot = "fail"]
              /\ ReturnNullopt
              /\ UNCHANGED local
         ELSE /\ env' = [env EXCEPT !.snapshot = "ok"]
              /\ local' = [local EXCEPT !.input_snapshot = snap]
              /\ IF NoBlurToRender(local.blur_info.scaled_sigma)
                 THEN /\ result' =
                           [has_value |-> TRUE,
                            entity |-> [contents |-> "snapshot", texture |-> 0,
                                        transform |-> SnapshotEntityTransform(
                                            args.entity,
                                            local.blur_info.source_space_scalar, snap)]]
                      /\ pc' = "done"
                 ELSE /\ pc' = "command_buffer"
                      /\ UNCHANGED result
    /\ UNCHANGED <<filter, args, gpu, rendered, pret, kernelVars>>

\* CreateCommandBuffer and CalculateDownsamplePassArgs.
RenderFilterCommandBuffer ==
    /\ pc = "command_buffer"
    /\ \E created \in BOOLEAN :
         IF created
         THEN /\ env' = [env EXCEPT !.command_buffer = "ok"]
              /\ gpu' = [gpu EXCEPT !.command_buffers = @ + 1]
              /\ local' = [local EXCEPT !.downsample_pass_args =
                              CalculateDownsamplePassArgs(local.blur_info.scaled_sigma,
                                                          local.blur_info.padding,
                                                          local.input_snapshot.size)]
              /\ pc' = "downsample"
              /\ UNCHANGED result
         ELSE /\ env' = [env EXCEPT !.command_buffer = "fail"]
              /\ ReturnNullopt
              /\ UNCHANGED <<gpu, local>>
    /\ UNCHANGED <<filter, args, rendered, pret, kernelVars>>

RenderFilterDownsample ==
    /\ pc = "downsample"
    /\ \E outcome \in SubpassOutcomes,
          supports_decal \in (IF filter.tile_mode = "kDecal" THEN BOOLEAN ELSE {FALSE}) :
         LET r == MakeDownsampleSubpass(gpu, local.input_snapshot.sampler_descriptor,
                                        local.downsample_pass_args, filter.tile_mode,
                                        supports_decal, outcome)
             queried == IF filter.tile_mode # "kDecal" THEN "unqueried"
                        ELSE IF supports_decal THEN "supported" ELSE "unsupported"
         IN  /\ gpu' = r.gpu
             /\ IF r.ok
                THEN /\ env' = [env EXCEPT !.downsample = "ok",
                                           !.decal_support = queried]
                     /\ local' = [local EXCEPT !.pass1_out = r.target]
                     /\ pc' = "blur1"
                     /\ UNCHANGED result
                ELSE /\ env' = [env EXCEPT !.downsample = "fail",
                                           !.decal_support = queried]
                     /\ ReturnNullopt
                     /\ UNCHANGED local
    /\ UNCHANGED <<filter, args, rendered, pret, kernelVars>>

\* The first MakeBlurSubpass (pass2_out).
RenderFilterBlur1 ==
    /\ pc = "blur1"
    /\ \E outcome \in SubpassOutcomes :
         LET r == MakeBlurSubpass(gpu, local.pass1_out, Pass2Parameters(local),
                                  NoTarget, outcome)
         IN  /\ gpu' = r.gpu
             /\ IF r.ok
                THEN /\ env' = [env EXCEPT !.blur1 = "ok"]
                     /\ local' = [local EXCEPT !.pass2_out = r.target]
                     /\ pc' = "blur2"
                     /\ UNCHANGED result
                ELSE /\ env' = [env EXCEPT !.blur1 = "fail"]
                     /\ ReturnNullopt
                     /\ UNCHANGED local
    /\ UNCHANGED <<filter, args, rendered, pret, kernelVars>>

\* Variant of the second blur step that goes on to submission when the
\* pass failed.
RenderFilterBlur2_IgnoresFailure ==
    /\ pc = "blur2"
    /\ \E outcome \in SubpassOutcomes :
         LET r == MakeBlurSubpass(gpu, local.pass2_out, Pass3Parameters(local),
                                  Pass3Destination(local), outcome)
         IN  /\ gpu' = r.gpu
             /\ env' = [env EXCEPT !.blur2 = IF r.ok THEN "ok" ELSE "fail"]
             /\ local' = [local EXCEPT !.pass3_out = r.target]
             /\ pc' = "submit"
             /\ UNCHANGED result
    /\ UNCHANGED <<filter, args, rendered, pret, kernelVars>>

\* The second MakeBlurSubpass (pass3_out).
RenderFilterBlur2 ==
    /\ pc = "blur2"
    /\ \E outcome \in SubpassOutcomes :
         LET r == MakeBlurSubpass(gpu, local.pass2_out, Pass3Parameters(local),
                                  Pass3Destination(local), outcome)
         IN  /\ gpu' = r.gpu
             /\ IF r.ok
                THEN /\ env' = [env EXCEPT !.blur2 = "ok"]
                     /\ local' = [local EXCEPT !.pass3_out = r.target]
                     /\ pc' = "submit"
                     /\ UNCHANGED result
                ELSE /\ env' = [env EXCEPT !.blur2 = "fail"]
                     /\ ReturnNullopt
                     /\ UNCHANGED local
    /\ UNCHANGED <<filter, args, rendered, pret, kernelVars>>

\* Variant of the submission step that does not look at Submit's status.
RenderFilterSubmit_IgnoresStatus ==
    /\ pc = "submit"
    /\ \E submitted \in BOOLEAN :
         /\ gpu' = [gpu EXCEPT !.submits = @ + 1]
         /\ env' = [env EXCEPT !.submit = IF submitted THEN "ok" ELSE "fail"]
         /\ result' = [has_value |-> TRUE,
                       entity |-> ApplyBlurStyle(filter.mask_blur_style,
                                                 BlurOutputEntity(args, local))]
         /\ pc' = "done"
    /\ UNCHANGED <<filter, args, local, rendered, pret, kernelVars>>

\* GetCommandQueue()->Submit, then ApplyBlurStyle on the blur output entity.
RenderFilterSubmit ==
    /\ pc = "submit"
    /\ \E submitted \in BOOLEAN :
         /\ gpu' = [gpu EXCEPT !.submits = @ + 1]
         /\ IF submitted
            THEN /\ env' = [env EXCEPT !.submit = "ok"]
                 /\ result' = [has_value |-> TRUE,
                               entity |-> ApplyBlurStyle(filter.mask_blur_style,
                                                         BlurOutputEntity(args, local))]
                 /\ pc' = "done"
            ELSE /\ env' = [env EXCEPT !.submit = "fail"]
                 /\ ReturnNullopt
    /\ UNCHANGED <<filter, args, local, rendered, pret, kernelVars>>

\* ------------------------------------------------------------------------
\* Rendering the returned entity
\* ------------------------------------------------------------------------

\* The renderer closure of ApplyClippedBlurStyle: the clip, then the blurred
\* entity; each Render is called whatever the other returned.
ClippedRender(clip_ok, blur_ok) ==
    [draws |-> <<"clip", "blur">>, ok |-> (blur_ok /\ (clip_ok /\ TRUE))]

\* The renderer closure of the kSolid case:
\*   result = result && blur_entity.Render(renderer, pass);
\*   result = result && snapshot_entity.Render(renderer, pass);
SolidRender(blur_ok, snapshot_ok) ==
    LET result1 == TRUE /\ blur_ok
        draws1  == <<"blur">>
    IN  IF result1
        THEN [draws |-> Append(draws1, "snapshot"), ok |-> (result1 /\ snapshot_ok)]
        ELSE [draws |-> draws1, ok |-> FALSE]

\* Entity::Render of the entity RenderFilter returned; the three booleans
\* are what the Render calls of the clipper, the blurred entity and the
\* snapshot entity return.
EntityRender(entity, clip_ok, blur_ok, snapshot_ok) ==
    CASE entity.contents = "snapshot" -> [draws |-> <<"snapshot">>, ok |-> snapshot_ok]
      [] entity.contents = "blur"     -> [draws |-> <<"blur">>, ok |-> blur_ok]
      [] entity.contents \in {"clip_intersect", "clip_difference"} ->
            ClippedRender(clip_ok, blur_ok)
      [] entity.contents = "solid"    -> SolidRender(blur_ok, snapshot_ok)

NoRender == [draws |-> <<>>, ok |-> TRUE]

RenderOutput ==
    /\ pc \in {"done", "rendered"}
    /\ result.has_value
    /\ \E clip_ok \in BOOLEAN, blur_ok \in BOOLEAN, snapshot_ok \in BOOLEAN :
         rendered' = EntityRender(result.entity, clip_ok, blur_ok, snapshot_ok)
    /\ pc' = "rendered"
    /\ UNCHANGED <<filter, args, local, env, gpu, result, pret, kernelVars>>

\* ------------------------------------------------------------------------
\* Specification of the filter object and its RenderFilter
\* ------------------------------------------------------------------------

\* sigma_ of the filter objects: both axes equal, or one axis zero or
\* below kEhCloseEnough.
RequestedSigmaPairs ==
    {p \in RequestedSigmas \X RequestedSigmas :
        p[1] = p[2] \/ p[1] < kEhCloseEnough \/ p[2] < kEhCloseEnough}
        \cup {<<600 * Q, 10 * Q>>}

\* FML_DCHECK is compiled in debug builds only.
Builds == {"debug", "release"}

\* The constructor returns unless its
\* FML_DCHECK(mask_blur_style == BlurStyle::kNormal || mask_geometry)
\* is compiled in and fails.
ConstructorCompletes(build, mask_blur_style, mask_geometry) ==
    build = "release" \/ mask_blur_style = "kNormal" \/ mask_geometry

\* The objects the constructor can return, in one build or the other: every
\* style with and without geometry for tile mode kClamp, and the other tile
\* modes for the normal style.
FilterObjects ==
    {f \in [sigma : RequestedSigmaPairs, tile_mode : TileModes,
            mask_blur_style : BlurStyles, mask_geometry : BOOLEAN] :
        /\ \E build \in Builds :
              ConstructorCompletes(build, f.mask_blur_style, f.mask_geometry)
        /\ (f.tile_mode = "kClamp"
               \/ (f.mask_blur_style = "kNormal" /\ ~f.mask_geometry))}

NoResult == [has_value |-> FALSE, entity |-> NoEntity]

NoCall == [fn |-> "none"]

NoKernel == [sample_count |-> 0, samples |-> <<>>]

InitRender ==
    /\ pc = "idle"
    /\ args = InitArgs
    /\ local = InitLocal
    /\ env = InitEnv
    /\ gpu = InitGpu
    /\ result = NoResult
    /\ rendered = NoRender

InitKernelIdle ==
    /\ kpc = "idle"
    /\ kparams = NoBlurParameters
    /\ kernel = NoKernel
    /\ lerp = NoKernel

Init ==
    /\ filter \in FilterObjects
    /\ InitRender
    /\ pret = NoCall
    /\ InitKernelIdle

Next ==
    \/ RenderFilterBegin
    \/ RenderFilterSnapshot
    \/ RenderFilterCommandBuffer
    \/ RenderFilterDownsample
    \/ RenderFilterBlur1
    \/ RenderFilterBlur2
    \/ RenderFilterSubmit
    \/ RenderOutput

Spec == Init /\ [][Next]_vars

\* ------------------------------------------------------------------------
\* Coverage
\* ------------------------------------------------------------------------

\* Rect::Expand(Point): a rectangle is [l, t, r, b].
RectExpand(rect, amount) ==
    [l |-> rect.l - amount[1], t |-> rect.t - amount[2],
     r |-> rect.r + amount[1], b |-> rect.b + amount[2]]

NoRect == [l |-> 0, t |-> 0, r |-> 0, b |-> 0]

\* Variant of GetFilterCoverage that expands by blur_info.padding.
GetFilterCoverage_SourcePadding(sigma_, inputs, entity_transform, effect_transform) ==
    IF inputs.empty THEN [has_value |-> FALSE, rect |-> NoRect]
    ELSE IF ~inputs.has_coverage THEN [has_value |-> FALSE, rect |-> NoRect]
    ELSE LET blur_info == CalculateBlurInfo(entity_transform, effect_transform, sigma_)
         IN  [has_value |-> TRUE,
              rect |-> RectExpand(inputs.coverage, blur_info.padding)]

\* inputs is [empty, has_coverage, coverage]: whether the input list is
\* empty, and what inputs[0]->GetCoverage(entity) returns.
GetFilterCoverage(sigma_, inputs, entity_transform, effect_transform) ==
    IF inputs.empty THEN [has_value |-> FALSE, rect |-> NoRect]
    ELSE IF ~inputs.has_coverage THEN [has_value |-> FALSE, rect |-> NoRect]
    ELSE LET blur_info == CalculateBlurInfo(entity_transform, effect_transform, sigma_)
         IN  [has_value |-> TRUE,
              rect |-> RectExpand(inputs.coverage, blur_info.local_padding)]

\* ------------------------------------------------------------------------
\* Specification of the parameter-derivation functions: each action is one
\* call, on arguments drawn from the sets below.
\* ------------------------------------------------------------------------

\* Sigmas 0, 1/2, 1, ... up to MaxSigmaInput, a negative one, one below
\* kEhCloseEnough, and two far beyond the clamp.
MaxSigmaInput == 520

SigmaGrid ==
    {(i * Q) \div 2 : i \in 0 .. 2 * MaxSigmaInput}
        \cup {-Q, Q \div 2000, 1000 * Q, 50000 * Q}

\* Requested sigmas for CalculateBlurInfo: 0, 0.0005, 1, 10, 219 (where
\* ScaleSigma peaks), 600, and a negative one.
BlurInfoSigmas ==
    {0, Q \div 2000, Q, 10 * Q, 219 * Q, 600 * Q, -(10 * Q)}

CoverageInputs ==
    [empty : BOOLEAN, has_coverage : BOOLEAN,
     coverage : {[l |-> 0, t |-> 0, r |-> 100 * Q, b |-> 60 * Q],
                 [l |-> -(5 * Q), t |-> 7 * Q, r |-> Q \div 2, b |-> 8 * Q]}]

CallCalculateScale ==
    /\ pret = NoCall
    /\ \E sigma \in SigmaGrid :
         pret' = [fn |-> "CalculateScale", sigma |-> sigma,
                  value |-> CalculateScale(sigma)]
    /\ UNCHANGED <<filter, renderVars, kernelVars>>

CallScaleSigma ==
    /\ pret = NoCall
    /\ \E sigma \in SigmaGrid :
         pret' = [fn |-> "ScaleSigma", sigma |-> sigma, value |-> ScaleSigma(sigma)]
    /\ UNCHANGED <<filter, renderVars, kernelVars>>

CallCalculateBlurInfo ==
    /\ pret = NoCall
    /\ \E sigma \in BlurInfoSigmas \X BlurInfoSigmas,
          entity \in EntityTransforms, effect \in EffectTransforms :
         pret' = [fn |-> "CalculateBlurInfo", sigma |-> sigma, entity |-> entity,
                  effect_transform |-> effect,
                  value |-> CalculateBlurInfo(entity, effect, sigma)]
    /\ UNCHANGED <<filter, renderVars, kernelVars>>

CallGetFilterCoverage ==
    /\ pret = NoCall
    /\ \E inputs \in CoverageInputs,
          entity \in EntityTransforms, effect \in EffectTransforms :
         pret' = [fn |-> "GetFilterCoverage", sigma |-> filter.sigma,
                  inputs |-> inputs, entity |-> entity, effect_transform |-> effect,
                  value |-> GetFilterCoverage(filter.sigma, inputs, entity, effect)]
    /\ UNCHANGED <<filter, renderVars, kernelVars>>

\* Filter objects that differ in sigma_ only (GetFilterCoverage reads no
\* other member).
InitParam ==
    /\ filter \in [sigma : RequestedSigmaPairs,
                   tile_mode : {"kClamp"}, mask_blur_style : {"kNormal"},
                   mask_geometry : {FALSE}]
    /\ InitRender
    /\ pret = NoCall
    /\ InitKernelIdle

NextParam ==
    \/ CallCalculateScale
    \/ CallScaleSigma
    \/ CallCalculateBlurInfo
    \/ CallGetFilterCoverage

SpecParam == InitParam /\ [][NextParam]_vars

\* ------------------------------------------------------------------------
\* Specification of the kernel functions: GenerateBlurInfo on parameters
\* drawn from the sets below, then LerpHackKernelSamples on its result.
\* ------------------------------------------------------------------------

KMaxRadius == 53

KMaxStep == 4

\* Sigmas kEhCloseEnough, 0.5, 3 and 30.
KernelSigmas == {kEhCloseEnough, Q \div 2, 3 * Q, 30 * Q}

KernelParameters ==
    [blur_uv_offset : {<<0, Q \div 64>>}, blur_sigma : KernelSigmas,
     blur_radius : 0 .. KMaxRadius, step_size : 1 .. KMaxStep]

CallGenerateBlurInfo ==
    /\ kpc = "parameters"
    /\ kernel' = GenerateBlurInfo(kparams)
    /\ kpc' = "generated"
    /\ UNCHANGED <<filter, renderVars, pret, kparams, lerp>>

CallLerpHackKernelSamples ==
    /\ kpc = "generated"
    /\ lerp' = LerpHackKernelSamples(kernel)
    /\ kpc' = "lerped"
    /\ UNCHANGED <<filter, renderVars, pret, kparams, kernel>>

InitKernel ==
    /\ filter = [sigma |-> <<0, 0>>, tile_mode |-> "kClamp",
                 mask_blur_style |-> "kNormal", mask_geometry |-> FALSE]
    /\ InitRender
    /\ pret = NoCall
    /\ kpc = "parameters"
    /\ kparams \in KernelParameters
    /\ kernel = NoKernel
    /\ lerp = NoKernel

NextKernel ==
    \/ CallGenerateBlurInfo
    \/ CallLerpHackKernelSamples

SpecKernel == InitKernel /\ [][NextKernel]_vars

\* ------------------------------------------------------------------------
\* Properties of RenderFilter (specification Spec)
\* ------------------------------------------------------------------------

Returned == pc \in {"done", "rendered"}

\* The scaled sigma of the invocation, from its arguments and sigma_.
InvocationScaledSigma ==
    CalculateBlurInfo(args.entity, args.effect_transform, filter.sigma).scaled_sigma

BothSigmasNearZero ==
    /\ InvocationScaledSigma[1] < kEhCloseEnough
    /\ InvocationScaledSigma[2] < kEhCloseEnough

AllStepsSucceeded ==
    /\ env.command_buffer = "ok"
    /\ env.downsample = "ok"
    /\ env.blur1 = "ok"
    /\ env.blur2 = "ok"
    /\ env.submit = "ok"

\* C1: once RenderFilter has returned, it has returned an entity if and
\* only if the input list was non-empty, the first input gave a snapshot,
\* and either both scaled sigmas are below kEhCloseEnough or command buffer
\* creation, the downsample subpass, both blur subpasses and Submit all
\* succeeded; in every other case it returned std::nullopt.
C1_EntityIffAllStepsSucceed ==
    Returned =>
        (result.has_value <=>
            (/\ ~args.inputs_empty
             /\ env.snapshot = "ok"
             /\ (BothSigmasNearZero \/ AllStepsSucceeded)))

C1_Witness_BlurredEntityReturned ==
    /\ pc = "done"
    /\ result.has_value
    /\ env.submit = "ok"
    /\ ~BothSigmasNearZero

\* The blur passes of the invocation that are not skipped (blur_sigma at or
\* above kEhCloseEnough), once pass1_out exists.
BlurPassesNeeded ==
    (IF Pass2Parameters(local).blur_sigma >= kEhCloseEnough THEN 1 ELSE 0)
        + (IF Pass3Parameters(local).blur_sigma >= kEhCloseEnough THEN 1 ELSE 0)

PassesOfKind(kind) == {i \in 1 .. Len(gpu.passes) : gpu.passes[i].kind = kind}

\* C2: the command buffer is submitted at most once; when it has been
\* submitted, the downsample step and both MakeBlurSubpass steps had
\* succeeded, the downsample pass and every blur pass that is not skipped
\* are in the command buffer, and every recorded pass succeeded; when
\* command buffer creation or a subpass failed, nothing was submitted; on
\* the pass-through path no command buffer was created or submitted.
C2_SubmitOnceAfterAllPasses ==
    /\ gpu.submits <= 1
    /\ gpu.command_buffers <= 1
    /\ gpu.submits = 1 =>
          /\ env.command_buffer = "ok"
          /\ env.downsample = "ok"
          /\ env.blur1 = "ok"
          /\ env.blur2 = "ok"
          /\ Cardinality(PassesOfKind("downsample")) = 1
          /\ Cardinality(PassesOfKind("blur")) = BlurPassesNeeded
          /\ \A i \in 1 .. Len(gpu.passes) : gpu.passes[i].ok
    /\ (\/ env.command_buffer = "fail"
        \/ env.downsample = "fail"
        \/ env.blur1 = "fail"
        \/ env.blur2 = "fail") => (Returned /\ gpu.submits = 0)
    /\ (Returned /\ result.has_value /\ BothSigmasNearZero) =>
          (gpu.command_buffers = 0 /\ gpu.submits = 0)

C2_Witness_SubmittedAfterThreePasses ==
    /\ gpu.submits = 1
    /\ Len(gpu.passes) = 3
    /\ Returned

\* entity.GetTransform() * MakeScale(1 / source_space_scalar) * the snapshot
\* transform, from the arguments of the invocation.
ReprojectedSnapshotTransform ==
    MatMul(MatMul(args.entity, MakeScale(VecInv(ExtractScale(args.entity)))),
           MakeScale(local.input_snapshot.transform))

\* C3: when the inputs are non-empty, the snapshot is available and both
\* scaled sigmas are below kEhCloseEnough, RenderFilter returns an entity
\* that wraps the input snapshot's texture with the transform
\* entity transform * scale(1 / source scale) * snapshot transform, and it
\* has created no command buffer, no render target and no subpass; a
\* requested sigma of (0, 0) is such a case under every transform.
C3_PassThroughWrapsSnapshot ==
    (/\ Returned
     /\ ~args.inputs_empty
     /\ env.snapshot = "ok"
     /\ (BothSigmasNearZero \/ filter.sigma = <<0, 0>>)) =>
        /\ result.has_value
        /\ result.entity.contents = "snapshot"
        /\ result.entity.texture = 0
        /\ result.entity.transform = ReprojectedSnapshotTransform
        /\ gpu = InitGpu
        /\ env.command_buffer = "none"

C3_Witness_NearZeroSigmaPassThrough ==
    /\ pc = "done"
    /\ result.has_value
    /\ result.entity.contents = "snapshot"
    /\ filter.sigma # <<0, 0>>
    /\ args.entity # Identity

\* The size of the render target a pass output refers to.
TargetSize(target) == gpu.targets[target.id]

\* C7: in an invocation that reaches submission, the targets returned by
\* the downsample pass, the first blur pass and the second blur pass have
\* the same pixel dimensions, whether a blur pass was skipped, drew into the
\* reused downsample target or drew into a fresh target.
C7_PassOutputsSameSize ==
    (pc = "submit" \/ gpu.submits = 1) =>
        /\ local.pass1_out.size = local.pass2_out.size
        /\ local.pass2_out.size = local.pass3_out.size
        /\ TargetSize(local.pass1_out) = TargetSize(local.pass2_out)
        /\ TargetSize(local.pass2_out) = TargetSize(local.pass3_out)
        /\ TargetSize(local.pass1_out) = local.pass1_out.size

C7_Witness_PingPong ==
    /\ gpu.submits = 1
    /\ local.pass2_out.id # local.pass1_out.id
    /\ local.pass3_out.id = local.pass1_out.id
    /\ local.pass1_out.size[1] # local.pass1_out.size[2]

\* C10: for the solid style with a mask geometry, every render of the
\* returned entity issues exactly two draws, the blurred entity and then the
\* snapshot.  The closure stops after the blurred entity when its Render
\* returns false, so this is violated.
C10_SolidDrawsBlurThenSnapshot ==
    (/\ pc = "rendered"
     /\ filter.mask_blur_style = "kSolid"
     /\ filter.mask_geometry
     /\ result.entity.contents = "solid") =>
        rendered.draws = <<"blur", "snapshot">>

\* C11: a filter with a style other than normal and no mask geometry is
\* rejected at construction, so no such object goes on to RenderFilter.  The
\* constructor checks this with FML_DCHECK only, which a release build
\* compiles out, so this is violated.
C11_NoStyleWithoutGeometryRenders ==
    pc # "idle" => (filter.mask_blur_style = "kNormal" \/ filter.mask_geometry)

\* The blur sigma and radius the invocation gives the pass of an axis
\* (1 is X, 2 is Y), from its arguments and the downsample pass arguments.
AxisSigma(axis) ==
    FMul(InvocationScaledSigma[axis], local.downsample_pass_args.effective_scalar[axis])

AxisRadius(axis) ==
    ScaleBlurRadius(
        CalculateBlurInfo(args.entity, args.effect_transform, filter.sigma).blur_radius[axis],
        local.downsample_pass_args.effective_scalar[axis])

\* One texel of the downsample target, per axis.
DownsampleTexel(axis) ==
    FDiv(Q, gpu.targets[gpu.passes[1].dest][axis] * Q)

IsVerticalPass(p) ==
    /\ p.kind = "blur"
    /\ p.blur.blur_uv_offset = <<0, DownsampleTexel(2)>>
    /\ p.blur.blur_sigma = AxisSigma(2)
    /\ p.blur.blur_radius = AxisRadius(2)
    /\ p.blur.step_size = 1

IsHorizontalPass(p) ==
    /\ p.kind = "blur"
    /\ p.blur.blur_uv_offset = <<DownsampleTexel(1), 0>>
    /\ p.blur.blur_sigma = AxisSigma(1)
    /\ p.blur.blur_radius = AxisRadius(1)
    /\ p.blur.step_size = 1

RequestedAddressMode ==
    CASE filter.tile_mode = "kClamp"  -> "kClampToEdge"
      [] filter.tile_mode = "kRepeat" -> "kRepeat"
      [] filter.tile_mode = "kMirror" -> "kMirror"
      [] filter.tile_mode = "kDecal"  ->
            IF env.decal_support = "supported" THEN "kDecal" ELSE "kClampToEdge"

\* C13: the downsample pass samples the input with the address mode of the
\* tile mode on both axes, and with kClampToEdge on both axes when the tile
\* mode is decal and the device does not support decal, whatever the input
\* snapshot's sampler descriptor carried.  SetTileMode leaves the descriptor
\* it was given untouched in that case, so this is violated.
C13_DownsampleSamplerFollowsTileMode ==
    Len(gpu.passes) >= 1 =>
        gpu.passes[1].sampler = <<RequestedAddressMode, RequestedAddressMode>>

\* The passes that draw into render target t, and those that sample it.
Writers(t) == {i \in 1 .. Len(gpu.passes) : gpu.passes[i].dest = t}

Readers(t) == {i \in 1 .. Len(gpu.passes) : gpu.passes[i].input = t}

AllTargets == 1 .. Len(gpu.targets)

\* C14 as stated: every render target is drawn into by exactly one subpass,
\* and no target that a pass has sampled is the destination of a later
\* pass.
C14_Stated_SingleWriter ==
    /\ \A t \in AllTargets : Cardinality(Writers(t)) = 1
    /\ \A t \in AllTargets : \A r \in Readers(t) : \A w \in Writers(t) : w < r

\* C14: no subpass draws into the target it samples, every pass after the
\* downsample samples the target the pass just before it drew into, and
\* the only target drawn into twice is the downsample target, by the
\* downsample pass and, after the first blur pass has sampled it, by the
\* second blur pass; every other target has one writer that precedes its
\* readers.
C14_NoPassWritesItsInput ==
    /\ \A i \in 1 .. Len(gpu.passes) :
          /\ gpu.passes[i].dest # gpu.passes[i].input
          /\ gpu.passes[i].dest \in AllTargets
          /\ (i = 1 => gpu.passes[i].input = 0)
          /\ (i > 1 => gpu.passes[i].input = gpu.passes[i - 1].dest)
    /\ \A t \in AllTargets :
          \/ /\ Cardinality(Writers(t)) = 1
             /\ \A r \in Readers(t) : \A w \in Writers(t) : w < r
          \/ /\ t = gpu.passes[1].dest
             /\ Writers(t) = {1, 3}
             /\ Readers(t) = {2}

C14_Witness_DownsampleTargetRewritten ==
    /\ pc = "done"
    /\ result.has_value
    /\ Len(gpu.passes) = 3
    /\ gpu.passes[3].dest = gpu.passes[1].dest
    /\ gpu.passes[2].input = gpu.passes[1].dest

\* C15: the second blur pass draws into the downsample target exactly when
\* the first blur pass returned a target other than the downsample target,
\* and otherwise into a target allocated for it; no blur pass draws into
\* the target it samples; an invocation allocates at most two targets.
C15_PingPongDestination ==
    /\ Len(gpu.targets) <= 2
    /\ \A i \in 1 .. Len(gpu.passes) :
          gpu.passes[i].kind = "blur" => gpu.passes[i].dest # gpu.passes[i].input
    /\ \A i \in 2 .. Len(gpu.passes) :
          IsHorizontalPass(gpu.passes[i]) =>
              /\ (gpu.passes[i].dest = local.pass1_out.id
                     <=> local.pass2_out.id # local.pass1_out.id)
              /\ (local.pass2_out.id = local.pass1_out.id =>
                     /\ gpu.passes[i].dest = Len(gpu.targets)
                     /\ Writers(gpu.passes[i].dest) = {i}
                     /\ gpu.passes[i].input = local.pass1_out.id)
              /\ (local.pass2_out.id # local.pass1_out.id =>
                     /\ gpu.passes[i].input = local.pass2_out.id
                     /\ Len(gpu.targets) = 2)

C15_Witness_FirstPassSkippedFreshTarget ==
    /\ pc = "done"
    /\ result.has_value
    /\ Len(gpu.passes) = 2
    /\ IsHorizontalPass(gpu.passes[2])
    /\ local.pass2_out.id = local.pass1_out.id
    /\ local.pass3_out.id = 2

VerticalPasses == {i \in 1 .. Len(gpu.passes) : IsVerticalPass(gpu.passes[i])}

HorizontalPasses == {i \in 1 .. Len(gpu.passes) : IsHorizontalPass(gpu.passes[i])}

\* C16: a blur pass whose sigma is below kEhCloseEnough records no subpass
\* (so no draw and no kernel), cannot fail, and returns its input target as
\* its output; this holds for each of the two passes on its own, and the
\* pass of the other axis is recorded when its sigma is at or above
\* kEhCloseEnough.
C16_NearZeroPassSkipped ==
    /\ (env.blur1 # "none" /\ AxisSigma(2) < kEhCloseEnough) =>
          /\ env.blur1 = "ok"
          /\ local.pass2_out = local.pass1_out
          /\ VerticalPasses = {}
    /\ (env.blur2 # "none" /\ AxisSigma(1) < kEhCloseEnough) =>
          /\ env.blur2 = "ok"
          /\ local.pass3_out = local.pass2_out
          /\ HorizontalPasses = {}
    /\ (env.blur1 = "ok" /\ AxisSigma(2) >= kEhCloseEnough) =>
          /\ Cardinality(VerticalPasses) = 1
          /\ \A i \in VerticalPasses :
                gpu.passes[i].ok /\ gpu.passes[i].dest = local.pass2_out.id
    /\ (env.blur2 = "ok" /\ AxisSigma(1) >= kEhCloseEnough) =>
          /\ Cardinality(HorizontalPasses) = 1
          /\ \A i \in HorizontalPasses :
                gpu.passes[i].ok /\ gpu.passes[i].dest = local.pass3_out.id
    /\ Cardinality(PassesOfKind("blur")) =
          Cardinality(VerticalPasses) + Cardinality(HorizontalPasses)

C16_Witness_SecondSkippedFirstDrawn ==
    /\ pc = "done"
    /\ result.has_value
    /\ AxisSigma(1) < kEhCloseEnough
    /\ AxisSigma(2) >= kEhCloseEnough
    /\ Len(gpu.passes) = 2
    /\ IsVerticalPass(gpu.passes[2])
    /\ local.pass3_out = local.pass2_out

\* RenderFilter has computed downsample_pass_args (it is at or past the
\* down-sampling step).
DownsampleArgsComputed == pc \in {"downsample", "blur1", "blur2", "submit"}

\* C23: for an input snapshot of at least 1x1 pixel and scaled sigmas in
\* [0, kMaxSigma] that are not both below kEhCloseEnough,
\* CalculateDownsamplePassArgs yields a subpass size of at least 1 and a
\* non-zero effective scalar on both axes.
C23_SubpassSizeAtLeastOne ==
    (/\ DownsampleArgsComputed
     /\ local.input_snapshot.size[1] >= 1
     /\ local.input_snapshot.size[2] >= 1
     /\ \A axis \in 1 .. 2 :
           /\ 0 <= local.blur_info.scaled_sigma[axis]
           /\ local.blur_info.scaled_sigma[axis] <= kMaxSigma) =>
        \A axis \in 1 .. 2 :
            /\ local.downsample_pass_args.subpass_size[axis] >= 1
            /\ local.downsample_pass_args.effective_scalar[axis] # 0

\* ------------------------------------------------------------------------
\* Properties of the parameter derivation (specification SpecParam)
\* ------------------------------------------------------------------------

\* C5: CalculateScale(sigma) is one of 1, 1/2, 1/4, 1/8, 1/16, never below
\* 1/16, and exactly 1 for every sigma <= 4.
C5_ScaleIsPowerOfTwo ==
    pret.fn = "CalculateScale" =>
        /\ pret.value \in {Q, Q \div 2, Q \div 4, Q \div 8, Q \div 16}
        /\ pret.value >= Q \div 16
        /\ (pret.sigma <= 4 * Q => pret.value = Q)

C5_Witness_SixteenthScale ==
    /\ pret.fn = "CalculateScale"
    /\ pret.sigma > kMaxSigma
    /\ pret.value = Q \div 16

SigmaInRange(scaled_sigma) ==
    /\ 0 <= scaled_sigma[1] /\ scaled_sigma[1] <= kMaxSigma
    /\ 0 <= scaled_sigma[2] /\ scaled_sigma[2] <= kMaxSigma

\* The blur radius and padding of a blur info are those of its scaled sigma.
DerivedFromScaledSigma(blur_info) ==
    /\ blur_info.blur_radius = <<CalculateBlurRadius(blur_info.scaled_sigma[1]),
                                 CalculateBlurRadius(blur_info.scaled_sigma[2])>>
    /\ blur_info.padding = <<Ceil(blur_info.blur_radius[1]) * Q,
                             Ceil(blur_info.blur_radius[2]) * Q>>

\* C6 as stated: the scaled sigma of CalculateBlurInfo is within [0, 500]
\* on both axes, and for a requested sigma of (600, 600) it is 500 on both
\* axes.
C6_Stated_SixHundredBecomesFiveHundred ==
    pret.fn = "CalculateBlurInfo" =>
        /\ SigmaInRange(pret.value.scaled_sigma)
        /\ (pret.sigma = <<600 * Q, 600 * Q>> =>
               pret.value.scaled_sigma = <<kMaxSigma, kMaxSigma>>)

\* C6: the scaled sigma of CalculateBlurInfo is within [0, 500] on both
\* axes for every requested sigma and transform, and the blur radius and
\* padding are derived from that clamped value; a requested sigma of
\* (600, 600) is first limited to 500 inside ScaleSigma, which maps it to
\* 75, so it gives the same blur info as (500, 500), and with identity
\* transforms its scaled sigma is 75 on both axes.
C6_ScaledSigmaWithinRange ==
    pret.fn = "CalculateBlurInfo" =>
        /\ SigmaInRange(pret.value.scaled_sigma)
        /\ DerivedFromScaledSigma(pret.value)
        /\ (pret.sigma = <<600 * Q, 600 * Q>> =>
               /\ pret.value = CalculateBlurInfo(pret.entity, pret.effect_transform,
                                                 <<kMaxSigma, kMaxSigma>>)
               /\ ((pret.entity = Identity /\ pret.effect_transform = Identity) =>
                      pret.value.scaled_sigma = <<75 * Q, 75 * Q>>))

C6_Witness_SixHundredIdentity ==
    /\ pret.fn = "CalculateBlurInfo"
    /\ pret.sigma = <<600 * Q, 600 * Q>>
    /\ pret.entity = Identity
    /\ pret.effect_transform = Identity
    /\ pret.value.scaled_sigma = <<75 * Q, 75 * Q>>

\* ceil(CalculateBlurRadius(ScaleSigma(s))) pixels.
CeilRadiusPixels(s) == Ceil(CalculateBlurRadius(ScaleSigma(s))) * Q

\* C9: GetFilterCoverage has no value when the input list is empty or the
\* first input has no coverage; otherwise it is the input's coverage moved
\* out on each side by the local padding of CalculateBlurInfo for that axis,
\* which with identity transforms and a requested sigma (s, s) is
\* ceil(radius(ScaleSigma(s))) pixels on both axes.
C9_CoverageExpandedByLocalPadding ==
    pret.fn = "GetFilterCoverage" =>
        LET cov == pret.inputs.coverage
            out == pret.value.rect
            pad == CalculateBlurInfo(pret.entity, pret.effect_transform,
                                     pret.sigma).local_padding
        IN  /\ pret.value.has_value <=>
                  (~pret.inputs.empty /\ pret.inputs.has_coverage)
            /\ pret.value.has_value =>
                  /\ out.l = cov.l - pad[1] /\ out.r = cov.r + pad[1]
                  /\ out.t = cov.t - pad[2] /\ out.b = cov.b + pad[2]
            /\ (/\ pret.value.has_value
                /\ pret.entity = Identity
                /\ pret.effect_transform = Identity
                /\ pret.sigma[1] = pret.sigma[2]) =>
                  /\ cov.l - out.l = CeilRadiusPixels(pret.sigma[1])
                  /\ out.r - cov.r = CeilRadiusPixels(pret.sigma[1])
                  /\ cov.t - out.t = CeilRadiusPixels(pret.sigma[1])
                  /\ out.b - cov.b = CeilRadiusPixels(pret.sigma[1])

C9_Witness_SigmaTenIdentity ==
    /\ pret.fn = "GetFilterCoverage"
    /\ pret.value.has_value
    /\ pret.sigma = <<10 * Q, 10 * Q>>
    /\ pret.entity = Identity
    /\ pret.effect_transform = Identity
    /\ pret.value.rect.r - pret.inputs.coverage.r > 0

\* C21: ScaleSigma is monotonically non-decreasing: the value returned for
\* a requested sigma is at least the value ScaleSigma gives for every smaller
\* non-negative requested sigma.
C21_ScaleSigmaNonDecreasing ==
    (pret.fn = "ScaleSigma" /\ pret.sigma >= 0) =>
        \A s1 \in SigmaGrid :
            (0 <= s1 /\ s1 <= pret.sigma) => ScaleSigma(s1) <= pret.value

\* ------------------------------------------------------------------------
\* Properties of the kernel functions (specification SpecKernel)
\* ------------------------------------------------------------------------

\* The sum of the first sample_count coefficients; Indeterminate when one
\* of them is not a number.
CoefficientSum(k) ==
    IF k.sample_count <= 0 THEN 0
    ELSE IF \E i \in 0 .. k.sample_count - 1 : ~IsNumber(k.samples[i].coefficient)
    THEN Indeterminate
    ELSE SumRange([i \in 0 .. k.sample_count - 1 |-> k.samples[i].coefficient],
                  0, k.sample_count - 1)

\* 1e-4 in units of 1 / CoefUnit.
SumTolerance == CoefUnit \div (10 * 1000)

\* C4: for blur_radius >= 0, step_size >= 1 and blur_sigma >= kEhCloseEnough
\* the first sample_count coefficients of GenerateBlurInfo's result sum to 1
\* within 1e-4.  GenerateBlurInfo divides by a tally that is zero when no
\* sample is generated or every weight underflows, so this is violated.
C4_CoefficientsSumToOne ==
    (/\ kpc \in {"generated", "lerped"}
     /\ kparams.blur_radius >= 0
     /\ kparams.step_size >= 1
     /\ kparams.blur_sigma >= kEhCloseEnough) =>
        /\ IsNumber(CoefficientSum(kernel))
        /\ Abs(CoefficientSum(kernel) - CoefUnit) <= SumTolerance

\* C8: for an input kernel of n >= 1 samples LerpHackKernelSamples returns
\* a kernel of floor((n - 1) / 2) + 1 samples.
C8_LerpSampleCount ==
    (kpc = "lerped" /\ kernel.sample_count >= 1) =>
        /\ 2 * (lerp.sample_count - 1) <= kernel.sample_count - 1
        /\ kernel.sample_count - 1 < 2 * lerp.sample_count
        /\ DOMAIN lerp.samples = 0 .. lerp.sample_count - 1

C8_Witness_FullKernel ==
    /\ kpc = "lerped"
    /\ kernel.sample_count = kMaxKernelSize
    /\ lerp.sample_count = kGaussianBlurMaxKernelSize

\* C17: for an input kernel with an odd number n of samples, the one
\* sample LerpHackKernelSamples copies unmerged is the middle input sample
\* (index (n - 1) / 2).  The code copies input index 2 * (result count / 2),
\* which is the middle only when n = 1, 5, 9, ..., so this is violated.
C17_MiddleSampleUnmerged ==
    (/\ kpc = "lerped"
     /\ kernel.sample_count >= 1
     /\ kernel.sample_count % 2 = 1) =>
        \E i \in DOMAIN lerp.samples :
            lerp.samples[i] = kernel.samples[(kernel.sample_count - 1) \div 2]

\* C18: for every kernel GenerateBlurInfo returns (radius >= 0,
\* step_size >= 1, clamped or not) whose coefficients sum to a number,
\* LerpHackKernelSamples uses each input sample once, so the coefficients
\* of its result sum to the same total.  For an even number of input
\* samples the loop ends before the last one, so this is violated.
C18_LerpKeepsCoefficientSum ==
    (/\ kpc = "lerped"
     /\ kparams.blur_radius >= 0
     /\ kparams.step_size >= 1
     /\ kernel.sample_count >= 1
     /\ IsNumber(CoefficientSum(kernel))) =>
        /\ IsNumber(CoefficientSum(lerp))
        /\ Abs(CoefficientSum(lerp) - CoefficientSum(kernel)) <= SumTolerance

\* Sample i of the unreduced kernel of the parameters sits at i * step - radius.
UnreducedOffset(i) == (i * kparams.step_size) - kparams.blur_radius

\* C19: sample_count is 2 * radius / step + 1, less 2 when radius >= 3,
\* clamped to kMaxKernelSize; when radius >= 3 the origin is shifted by one
\* step, so that sample i is sample i + 1 of the unreduced kernel (the
\* kernel without its first and last sample).  The code shifts the origin
\* by 1, not by step_size, so this is violated when step_size > 1.
C19_OutermostSamplesDropped ==
    (/\ kpc \in {"generated", "lerped"}
     /\ kparams.blur_radius >= 0
     /\ kparams.step_size >= 1) =>
        LET full    == ((2 * kparams.blur_radius) \div kparams.step_size) + 1
            reduced == IF kparams.blur_radius >= 3 THEN full - 2 ELSE full
            first   == IF kparams.blur_radius >= 3 THEN 1 ELSE 0
        IN  /\ kernel.sample_count = Min(reduced, kMaxKernelSize)
            /\ \A i \in 0 .. kernel.sample_count - 1 :
                  kernel.samples[i].uv_offset =
                      <<kparams.blur_uv_offset[1] * UnreducedOffset(i + first),
                        kparams.blur_uv_offset[2] * UnreducedOffset(i + first)>>

\* C20: for the parameters RenderFilter passes (radius >= 0, step_size 1)
\* the kernel has between 1 and kMaxKernelSize samples and its compressed
\* kernel at most kGaussianBlurMaxKernelSize, every sample written is within
\* the capacity of its array, and LerpHackKernelSamples reads no input
\* sample that GenerateBlurInfo did not write.
C20_SampleCountWithinCapacity ==
    (/\ kpc = "lerped"
     /\ kparams.blur_radius >= 0
     /\ kparams.step_size = 1) =>
        /\ kMaxKernelSize <= 2 * kGaussianBlurMaxKernelSize
        /\ 1 <= kernel.sample_count
        /\ kernel.sample_count <= kMaxKernelSize
        /\ DOMAIN kernel.samples \subseteq 0 .. kMaxKernelSize - 1
        /\ lerp.sample_count <= kGaussianBlurMaxKernelSize
        /\ DOMAIN lerp.samples \subseteq 0 .. kGaussianBlurMaxKernelSize - 1
        /\ \A i \in DOMAIN lerp.samples :
              lerp.samples[i].coefficient # Indeterminate

C20_Witness_ClampedKernelAtStepOne ==
    /\ kpc = "lerped"
    /\ kparams.step_size = 1
    /\ (2 * kparams.blur_radius) - 1 > kMaxKernelSize
    /\ kernel.sample_count = kMaxKernelSize
    /\ lerp.sample_count = kGaussianBlurMaxKernelSize

\* Sample j of the kernel mirrors sample i: the opposite offset and the
\* same coefficient.
Mirrors(i, j) ==
    /\ kernel.samples[j].uv_offset =
           <<-kernel.samples[i].uv_offset[1], -kernel.samples[i].uv_offset[2]>>
    /\ kernel.samples[j].coefficient = kernel.samples[i].coefficient

\* C22: every kernel returned by GenerateBlurInfo is symmetric about offset
\* zero: each of its first sample_count samples has a sample at the opposite
\* offset with the same coefficient, for every radius >= 0 and step_size >= 1.
\* The offsets start at x_offset - radius and advance by step_size over
\* sample_count samples, so this is violated when step_size does not divide
\* the span or when the count is clamped.
C22_KernelSymmetric ==
    (/\ kpc \in {"generated", "lerped"}
     /\ kparams.blur_radius >= 0
     /\ kparams.step_size >= 1) =>
        \A i \in 0 .. kernel.sample_count - 1 :
            \E j \in 0 .. kernel.sample_count - 1 : Mirrors(i, j)

====
